---- MODULE Spec2Model ----
(***************************************************************************)
(* Model of examples/wemo_gui.rs: the WeMo device controller.  One         *)
(* interactive thread runs WemoApp::update once per frame; background      *)
(* threads run scan_for_devices, the refresh fan-out of refresh_states,    *)
(* one refresh worker per device and cycle, and one command worker per     *)
(* toggle_device call.  All of them share one Mutex<HashMap<String,        *)
(* DeviceInfo>>.                                                           *)
(*                                                                         *)
(* A critical section that cannot block inside (lock, a few map            *)
(* operations, unlock) is one action guarded by lock = "free".  The        *)
(* section of scan_for_devices that performs state queries while holding   *)
(* the guard is modelled step by step with lock = "scan".                  *)
(***************************************************************************)
EXTENDS Integers, FiniteSets, Sequences, Bags, TLC

VARIABLES
    devices,          \* WemoApp.devices: the map behind the mutex, key -> DeviceInfo
    lock,             \* holder of the mutex: "free" or the thread holding it
    scanning,         \* WemoApp.scanning
    refresh_interval, \* WemoApp.refresh_interval (seconds)
    last_refresh,     \* WemoApp.last_refresh (clock reading, seconds)
    now,              \* last reading of the monotonic clock (seconds)
    uipc,             \* interactive thread: "tick" (top of update) or "lock" (at line 185)
    scanpc,           \* scan_for_devices thread: idle, clear, search, lock, loop, query, done
    results,          \* scan_for_devices: keys of `results` returned by search
    remaining,        \* scan_for_devices: keys of `results` the for loop has not visited
    cur,              \* scan_for_devices: key of the loop iteration in progress
    fanouts,          \* number of spawned refresh fan-out threads waiting for the mutex
    workers,          \* bag of per-device refresh workers [key, pc, state]
    commands,         \* bag of command workers [key, turn_on] inside their network call
    power,            \* the physical devices: key -> "On" | "Off"
    seed,             \* history: results of the seed queries of the scan in progress
    oldKeys,          \* history: key set of the registry when the scan in progress cleared it
    seen,             \* history: key set rendered by the last recorded frame
    seenPhase,        \* history: "during" (that frame fell between the scan's clear and its
                      \* end), "after" (after the scan ended), "after_absent" (after the
                      \* scan ended, an update for an absent key being the last update
                      \* applied), "none" (no such frame)
    applied           \* history: kind of the last refresh update that was applied: "failed"
                      \* (failed query, entry present with a known state), "absent" (no
                      \* entry for the key), "absent_done" (the same, after the scan ended),
                      \* "plain" (any other, and before any update)

vars == <<devices, lock, scanning, refresh_interval, last_refresh, now, uipc,
          scanpc, results, remaining, cur, fanouts, workers, commands, power,
          seed, oldKeys, seen, seenPhase, applied>>

----------------------------------------------------------------------------
(* Bounds of the model *)

\* the clock is read up to this many seconds after start-up
MaxNow == 10
\* the frames read the clock at multiples of this many seconds
ClockStep == 5
\* command workers in flight at the same time
MaxCommands == 1

(* Program constants *)

\* refresh_interval at construction
DefaultInterval == 10
\* range of the refresh interval slider
SliderMin == 5
SliderMax == 60

\* the devices that exist on the network
Keys == {"A", "B"}
\* Option<WemoState>::None
None == "None"
PowerStates == {"On", "Off"}

----------------------------------------------------------------------------
(* Pure helpers *)

\* faulty variant: every state but Off counts as on
IsOn_NotOff(state) == state # "Off"

\* WemoState::is_on on an Option<WemoState>, as used at line 232
IsOn(state) == state = "On"

\* the status label computed from a state (lines 67-70 and 109-114)
StatusMessage(state) ==
    IF state # None
    THEN (IF IsOn(state) THEN "ON" ELSE "OFF")
    ELSE "Unknown"

\* the DeviceInfo built by scan_for_devices for a discovered device
DeviceInfo(key, state) ==
    [ name           |-> <<"name", key>>,
      ip_address     |-> <<"ip", key>>,
      port           |-> 49153,
      serial_number  |-> <<"serial", key>>,
      state          |-> state,
      status_message |-> StatusMessage(state) ]

\* HashMap::insert
MapInsert(map, key, info) ==
    [k \in DOMAIN map \cup {key} |-> IF k = key THEN info ELSE map[k]]

\* HashMap::new / the map after clear()
EmptyMap == [k \in {} |-> None]

\* faulty variant: an update for a key that is gone inserts a fresh entry
UpdateState_Upsert(map, key, state) ==
    MapInsert(map, key,
        IF key \in DOMAIN map
        THEN [map[key] EXCEPT !.state = state, !.status_message = StatusMessage(state)]
        ELSE DeviceInfo(key, state))

\* faulty variant: a failed query leaves the entry as it was
UpdateState_KeepOnFailure(map, key, state) ==
    IF key \in DOMAIN map /\ state # None
    THEN [map EXCEPT ![key] = [@ EXCEPT !.state = state,
                                        !.status_message = StatusMessage(state)]]
    ELSE map

\* faulty variant: the state is overwritten and the label is recomputed only for a known state
UpdateState_KeepLabel(map, key, state) ==
    IF key \in DOMAIN map
    THEN [map EXCEPT ![key] = [@ EXCEPT !.state = state,
                                        !.status_message =
                                            IF state # None THEN StatusMessage(state) ELSE @]]
    ELSE map

\* faulty variant: only an entry whose state is unknown is overwritten
UpdateState_OnlyIfUnknown(map, key, state) ==
    IF key \in DOMAIN map /\ map[key].state = None
    THEN [map EXCEPT ![key] = [@ EXCEPT !.state = state,
                                        !.status_message = StatusMessage(state)]]
    ELSE map

\* faulty variant: the state and label are written to every entry of the map
UpdateState_All(map, key, state) ==
    IF key \in DOMAIN map
    THEN [k \in DOMAIN map |-> [map[k] EXCEPT !.state = state,
                                               !.status_message = StatusMessage(state)]]
    ELSE map

\* faulty variant: the label is computed from the state the entry held before
UpdateState_LabelFromOld(map, key, state) ==
    IF key \in DOMAIN map
    THEN [map EXCEPT ![key] = [@ EXCEPT !.state = state,
                                        !.status_message = StatusMessage(map[key].state)]]
    ELSE map

\* the body of the refresh worker's critical section (lines 106-115)
UpdateState(map, key, state) ==
    IF key \in DOMAIN map
    THEN [map EXCEPT ![key] = [@ EXCEPT !.state = state,
                                        !.status_message = StatusMessage(state)]]
    ELSE map

\* get_state_with_retry(..).ok(): the device's power state, or None on failure
QueryOutcomes(key) == {power[key], None}

\* faulty variant: the slider hands back values outside its range
SliderChoices_Unclamped == {SliderMin - 1, SliderMax + 1}

\* the values the user can drag the slider to (egui clamps to SliderMin..SliderMax)
SliderChoices == {SliderMin, SliderMax}

\* the readings Instant::now() can return when the last reading was t
ClockReadings(t) == {u \in t..MaxNow : u % ClockStep = 0}

\* a bag holding one copy of x
One(x) == SetToBag({x})

----------------------------------------------------------------------------
(* Construction *)

\* WemoApp::new: empty map, initial scan thread spawned, scanning = true
Init ==
    /\ devices = EmptyMap
    /\ lock = "free"
    /\ scanning = TRUE
    /\ refresh_interval = DefaultInterval
    /\ last_refresh = 0
    /\ now = 0
    /\ uipc = "tick"
    /\ scanpc = "clear"
    /\ results = {}
    /\ remaining = {}
    /\ cur = "none"
    /\ fanouts = 0
    /\ workers = EmptyBag
    /\ commands = EmptyBag
    /\ power \in [Keys -> PowerStates]
    /\ seed = EmptyMap
    /\ oldKeys = {}
    /\ seen = {}
    /\ seenPhase = "none"
    /\ applied = "plain"

----------------------------------------------------------------------------
(* The interactive thread: WemoApp::update *)

\* faulty variant: the cycle starts only when more than the interval has elapsed
UpdateBegin_Strict ==
    /\ uipc = "tick"
    /\ \E t \in ClockReadings(now) :
        /\ now' = t
        /\ IF t - last_refresh > refresh_interval
           THEN /\ fanouts' = fanouts + 1
                /\ last_refresh' = t
           ELSE UNCHANGED <<fanouts, last_refresh>>
    /\ IF scanning
       THEN UNCHANGED <<scanning, scanpc>>
       ELSE \E clicked \in BOOLEAN :
               IF clicked
               THEN /\ scanning' = TRUE
                    /\ scanpc' = "clear"
               ELSE UNCHANGED <<scanning, scanpc>>
    /\ \E v \in SliderChoices \cup {refresh_interval} : refresh_interval' = v
    /\ uipc' = "lock"
    /\ UNCHANGED <<devices, lock, results, remaining, cur, workers, commands,
                   power, seed, oldKeys, seen, seenPhase, applied>>

\* update, lines 145-177: refresh gating, the scan button, the interval slider
UpdateBegin ==
    /\ uipc = "tick"
    /\ \E t \in ClockReadings(now) :
        /\ now' = t
        /\ IF t - last_refresh >= refresh_interval
           THEN /\ fanouts' = fanouts + 1
                /\ last_refresh' = t
           ELSE UNCHANGED <<fanouts, last_refresh>>
    /\ IF scanning
       THEN UNCHANGED <<scanning, scanpc>>
       ELSE \E clicked \in BOOLEAN :
               IF clicked
               THEN /\ scanning' = TRUE
                    /\ scanpc' = "clear"
               ELSE UNCHANGED <<scanning, scanpc>>
    /\ \E v \in SliderChoices \cup {refresh_interval} : refresh_interval' = v
    /\ uipc' = "lock"
    /\ UNCHANGED <<devices, lock, results, remaining, cur, workers, commands,
                   power, seed, oldKeys, seen, seenPhase, applied>>

\* toggle_device: spawn a command worker for the device (lines 122-126)
ToggleDevice(cmds, key, turn_on) == cmds (+) One([key |-> key, turn_on |-> turn_on])

\* update, lines 185-197, with render_device_ui: lock, render every entry, at most
\* one enabled button is clicked in a frame, unlock at the end of the closure
UpdateRender ==
    /\ uipc = "lock"
    /\ lock = "free"
    /\ IF scanpc \in {"search", "lock", "loop", "query", "done"}
       THEN /\ seen' = DOMAIN devices
            /\ seenPhase' = IF scanpc # "done" THEN "during"
                             ELSE IF applied = "absent_done" THEN "after_absent"
                             ELSE "after"
       ELSE UNCHANGED <<seen, seenPhase>>
    /\ \E click \in {"none"} \cup DOMAIN devices :
          IF click = "none"
          THEN UNCHANGED commands
          ELSE /\ BagCardinality(commands) < MaxCommands
               /\ commands' = ToggleDevice(commands, click, ~IsOn(devices[click].state))
    /\ uipc' = "tick"
    /\ UNCHANGED <<devices, lock, scanning, refresh_interval, last_refresh, now,
                   scanpc, results, remaining, cur, fanouts, workers, power,
                   seed, oldKeys, applied>>

----------------------------------------------------------------------------
(* The discovery thread: WemoApp::scan_for_devices *)

\* line 54: devices.lock().unwrap().clear(); the guard is dropped at the semicolon
ScanClear ==
    /\ scanpc = "clear"
    /\ lock = "free"
    /\ devices' = EmptyMap
    /\ oldKeys' = DOMAIN devices
    /\ scanpc' = "search"
    /\ UNCHANGED <<lock, scanning, refresh_interval, last_refresh, now, uipc,
                   results, remaining, cur, fanouts, workers, commands, power,
                   seed, seen, seenPhase, applied>>

\* lines 56-57: the network search, without the mutex
ScanSearch ==
    /\ scanpc = "search"
    /\ \E found \in SUBSET Keys : results' = found
    /\ scanpc' = "lock"
    /\ UNCHANGED <<devices, lock, scanning, refresh_interval, last_refresh, now,
                   uipc, remaining, cur, fanouts, workers, commands, power,
                   seed, oldKeys, seen, seenPhase, applied>>

\* faulty variant: the guard is a temporary, dropped before the loop runs
ScanLock_Temporary ==
    /\ scanpc = "lock"
    /\ lock = "free"
    /\ remaining' = results
    /\ scanpc' = "loop"
    /\ UNCHANGED <<devices, lock, scanning, refresh_interval, last_refresh, now, uipc,
                   results, cur, fanouts, workers, commands, power,
                   seed, oldKeys, seen, seenPhase, applied>>

\* line 59: the guard devices_map lives until the function returns
ScanLock ==
    /\ scanpc = "lock"
    /\ lock = "free"
    /\ lock' = "scan"
    /\ remaining' = results
    /\ scanpc' = "loop"
    /\ UNCHANGED <<devices, scanning, refresh_interval, last_refresh, now, uipc,
                   results, cur, fanouts, workers, commands, power,
                   seed, oldKeys, seen, seenPhase, applied>>

\* lines 61-66: the next iteration (in the hash map's order) enters its seed query
ScanLoop ==
    /\ scanpc = "loop"
    /\ remaining # {}
    /\ \E k \in remaining : cur' = k
    /\ scanpc' = "query"
    /\ UNCHANGED <<devices, lock, scanning, refresh_interval, last_refresh, now,
                   uipc, results, remaining, fanouts, workers, commands, power,
                   seed, oldKeys, seen, seenPhase, applied>>

\* faulty variant: a device whose seed query failed is left out of the map
ScanInsert_SkipFailed ==
    /\ scanpc = "query"
    /\ \E state \in QueryOutcomes(cur) :
        /\ devices' = IF state = None THEN devices
                      ELSE MapInsert(devices, cur, DeviceInfo(cur, state))
        /\ seed' = MapInsert(seed, cur, state)
    /\ remaining' = remaining \ {cur}
    /\ cur' = "none"
    /\ scanpc' = "loop"
    /\ UNCHANGED <<lock, scanning, refresh_interval, last_refresh, now, uipc,
                   results, fanouts, workers, commands, power,
                   oldKeys, seen, seenPhase, applied>>

\* lines 66-83: the seed query returns and the entry is inserted
ScanInsert ==
    /\ scanpc = "query"
    /\ \E state \in QueryOutcomes(cur) :
        /\ devices' = MapInsert(devices, cur, DeviceInfo(cur, state))
        /\ seed' = MapInsert(seed, cur, state)
    /\ remaining' = remaining \ {cur}
    /\ cur' = "none"
    /\ scanpc' = "loop"
    /\ UNCHANGED <<lock, scanning, refresh_interval, last_refresh, now, uipc,
                   results, fanouts, workers, commands, power,
                   oldKeys, seen, seenPhase, applied>>

\* faulty variant: the end of the scan clears the scanning flag
ScanFinish_ClearsFlag ==
    /\ scanpc = "loop"
    /\ remaining = {}
    /\ lock' = "free"
    /\ scanning' = FALSE
    /\ seed' = EmptyMap
    /\ oldKeys' = {}
    /\ seen' = {}
    /\ seenPhase' = "none"
    /\ scanpc' = "done"
    /\ UNCHANGED <<devices, refresh_interval, last_refresh, now, uipc,
                   results, remaining, cur, fanouts, workers, commands, power, applied>>

\* faulty variant: the guard outlives the scan thread (it is leaked, not dropped)
ScanFinish_KeepsLock ==
    /\ scanpc = "loop"
    /\ remaining = {}
    /\ seed' = EmptyMap
    /\ oldKeys' = {}
    /\ seen' = {}
    /\ seenPhase' = "none"
    /\ scanpc' = "done"
    /\ UNCHANGED <<devices, lock, scanning, refresh_interval, last_refresh, now, uipc,
                   results, remaining, cur, fanouts, workers, commands, power, applied>>

\* line 85: the loop is over, the guard is dropped, the thread ends (the history
\* of the scan in progress ends with it)
ScanFinish ==
    /\ scanpc = "loop"
    /\ remaining = {}
    /\ lock' = "free"
    /\ seed' = EmptyMap
    /\ oldKeys' = {}
    /\ seen' = {}
    /\ seenPhase' = "none"
    /\ scanpc' = "done"
    /\ UNCHANGED <<devices, scanning, refresh_interval, last_refresh, now, uipc,
                   results, remaining, cur, fanouts, workers, commands, power, applied>>

----------------------------------------------------------------------------
(* refresh_states: the fan-out thread and the per-device workers *)

\* lines 91-118: lock, spawn one worker per entry, unlock
FanoutRun ==
    /\ fanouts > 0
    /\ lock = "free"
    /\ fanouts' = fanouts - 1
    /\ workers' = workers (+)
          SetToBag({[key |-> k, pc |-> "query", state |-> None] : k \in DOMAIN devices})
    /\ UNCHANGED <<devices, lock, scanning, refresh_interval, last_refresh, now,
                   uipc, scanpc, results, remaining, cur, commands, power,
                   seed, oldKeys, seen, seenPhase, applied>>

\* line 103: the worker's state query returns
RefreshQuery(w) ==
    /\ w.pc = "query"
    /\ \E state \in QueryOutcomes(w.key) :
          workers' = (workers (-) One(w)) (+) One([w EXCEPT !.pc = "update", !.state = state])
    /\ UNCHANGED <<devices, lock, scanning, refresh_interval, last_refresh, now,
                   uipc, scanpc, results, remaining, cur, fanouts, commands, power,
                   seed, oldKeys, seen, seenPhase, applied>>

\* history: the kind of update worker w is about to apply
UpdateKind(w) ==
    IF w.key \notin DOMAIN devices
    THEN (IF scanpc = "done" THEN "absent_done" ELSE "absent")
    ELSE IF w.state = None /\ devices[w.key].state # None THEN "failed" ELSE "plain"

\* faulty variant: the updates are applied by one thread in turn, once no query is in flight
RefreshUpdate_Joined(w) ==
    /\ w.pc = "update"
    /\ lock = "free"
    /\ \A v \in BagToSet(workers) : v.pc # "query"
    /\ devices' = UpdateState(devices, w.key, w.state)
    /\ workers' = workers (-) One(w)
    /\ applied' = UpdateKind(w)
    /\ UNCHANGED <<lock, scanning, refresh_interval, last_refresh, now,
                   uipc, scanpc, results, remaining, cur, fanouts, commands, power,
                   seed, oldKeys, seen, seenPhase>>

\* lines 106-116: lock, update the entry if it is still there, unlock, thread ends
RefreshUpdate(w) ==
    /\ w.pc = "update"
    /\ lock = "free"
    /\ devices' = UpdateState(devices, w.key, w.state)
    /\ workers' = workers (-) One(w)
    /\ applied' = UpdateKind(w)
    /\ UNCHANGED <<lock, scanning, refresh_interval, last_refresh, now,
                   uipc, scanpc, results, remaining, cur, fanouts, commands, power,
                   seed, oldKeys, seen, seenPhase>>

----------------------------------------------------------------------------
(* toggle_device: the command worker *)

\* faulty variant: a successful command writes the commanded state into the registry
CommandReturn_Optimistic(c) ==
    /\ \E ok \in BOOLEAN :
        /\ power' = IF ok
                    THEN [power EXCEPT ![c.key] = IF c.turn_on THEN "On" ELSE "Off"]
                    ELSE power
        /\ devices' = IF ok /\ lock = "free"
                      THEN UpdateState(devices, c.key, IF c.turn_on THEN "On" ELSE "Off")
                      ELSE devices
    /\ commands' = commands (-) One(c)
    /\ UNCHANGED <<lock, scanning, refresh_interval, last_refresh, now,
                   uipc, scanpc, results, remaining, cur, fanouts, workers,
                   seed, oldKeys, seen, seenPhase, applied>>

\* lines 127-137: the command succeeds (the device switches) or fails; the
\* result is discarded and the thread ends after its sleep
CommandReturn(c) ==
    /\ \E ok \in BOOLEAN :
          power' = IF ok
                   THEN [power EXCEPT ![c.key] = IF c.turn_on THEN "On" ELSE "Off"]
                   ELSE power
    /\ commands' = commands (-) One(c)
    /\ UNCHANGED <<devices, lock, scanning, refresh_interval, last_refresh, now,
                   uipc, scanpc, results, remaining, cur, fanouts, workers,
                   seed, oldKeys, seen, seenPhase, applied>>

----------------------------------------------------------------------------

Next ==
    \/ UpdateBegin
    \/ UpdateRender
    \/ ScanClear
    \/ ScanSearch
    \/ ScanLock
    \/ ScanLoop
    \/ ScanInsert
    \/ ScanFinish
    \/ FanoutRun
    \/ \E w \in BagToSet(workers) : RefreshQuery(w)
    \/ \E w \in BagToSet(workers) : RefreshUpdate(w)
    \/ \E c \in BagToSet(commands) : CommandReturn(c)

\* the program as main builds it
Spec == Init /\ [][Next]_vars

\* the refresh workers that can exist
WorkerRecords == [key : Keys, pc : {"query", "update"}, state : PowerStates \cup {None}]

\* the command workers toggle_device can spawn
CommandRecords == [key : Keys, turn_on : BOOLEAN]

\* the scheduler runs every thread that can run, every network call returns
\* (with a result or with its timeout), and egui keeps calling update
\* (request_repaint at line 201)
Fairness ==
    /\ WF_vars(UpdateBegin)
    /\ WF_vars(UpdateRender)
    /\ WF_vars(ScanClear)
    /\ WF_vars(ScanSearch)
    /\ WF_vars(ScanLock)
    /\ WF_vars(ScanLoop)
    /\ WF_vars(ScanInsert)
    /\ WF_vars(ScanFinish)
    /\ WF_vars(FanoutRun)
    /\ \A w \in WorkerRecords : WF_vars(BagIn(w, workers) /\ RefreshQuery(w))
    /\ \A w \in WorkerRecords : WF_vars(BagIn(w, workers) /\ RefreshUpdate(w))
    /\ \A c \in CommandRecords : WF_vars(BagIn(c, commands) /\ CommandReturn(c))

\* the program under a fair scheduler
SpecFair == Spec /\ Fairness

\* every registry scan_for_devices and the refresh workers can be handed:
\* one entry per key of a subset of the devices, each in any state
Registries ==
    UNION { { [k \in S |-> DeviceInfo(k, st[k])] : st \in [S -> PowerStates \cup {None}] }
            : S \in SUBSET Keys }

\* the session at a frame where update offers the Scan button (lines 162-169):
\* no scan thread is running and the registry holds the devices found before
InitRescan ==
    /\ devices \in Registries
    /\ lock = "free"
    /\ scanning = FALSE
    /\ refresh_interval = DefaultInterval
    /\ last_refresh = 0
    /\ now = 0
    /\ uipc = "tick"
    /\ scanpc = "idle"
    /\ results = {}
    /\ remaining = {}
    /\ cur = "none"
    /\ fanouts = 0
    /\ workers = EmptyBag
    /\ commands = EmptyBag
    /\ power \in [Keys -> PowerStates]
    /\ seed = EmptyMap
    /\ oldKeys = {}
    /\ seen = {}
    /\ seenPhase = "none"
    /\ applied = "plain"

\* scan_for_devices run again from the Scan button, on a populated registry
SpecRescan == InitRescan /\ [][Next]_vars

----------------------------------------------------------------------------
(* The session after discovery, run without an end *)

\* the refresh threads that may still be in flight when the next cycle starts
MaxInFlight == 2

\* update reads the clock only as last_refresh.elapsed() (line 145), so the
\* session without an end keeps the clock relative to the last cycle: now is the
\* time elapsed since it, and any elapsed time of SliderMax or more starts a cycle
ElapsedReadings(t) == {u \in t..(SliderMax + ClockStep - 1) : u % ClockStep = 0}

\* faulty variant: last_refresh is set in every tick, so no interval ever elapses
UpdateBeginLive_TimerReset ==
    /\ uipc = "tick"
    /\ now' = 0
    /\ UNCHANGED <<fanouts, last_refresh, scanning, scanpc>>
    /\ \E v \in SliderChoices \cup {refresh_interval} : refresh_interval' = v
    /\ uipc' = "lock"
    /\ UNCHANGED <<devices, lock, results, remaining, cur, workers, commands,
                   power, seed, oldKeys, seen, seenPhase, applied>>

\* update, lines 145-177, with the clock relative to the last cycle
UpdateBeginLive ==
    /\ uipc = "tick"
    /\ \E t \in ElapsedReadings(now) :
        IF t - last_refresh >= refresh_interval
        THEN /\ fanouts + BagCardinality(workers) < MaxInFlight
             /\ fanouts' = fanouts + 1
             /\ now' = 0
             /\ last_refresh' = 0
        ELSE /\ now' = t
             /\ UNCHANGED <<fanouts, last_refresh>>
    /\ IF scanning
       THEN UNCHANGED <<scanning, scanpc>>
       ELSE \E clicked \in BOOLEAN :
               IF clicked
               THEN /\ scanning' = TRUE
                    /\ scanpc' = "clear"
               ELSE UNCHANGED <<scanning, scanpc>>
    /\ \E v \in SliderChoices \cup {refresh_interval} : refresh_interval' = v
    /\ uipc' = "lock"
    /\ UNCHANGED <<devices, lock, results, remaining, cur, workers, commands,
                   power, seed, oldKeys, seen, seenPhase, applied>>

\* the session once the discovery thread of WemoApp::new has ended: it found
\* one device, which answered the seed query with "Off", and the mutex is free
InitLive ==
    /\ \E key \in Keys :
          /\ results = {key}
          /\ devices = MapInsert(EmptyMap, key, DeviceInfo(key, "Off"))
    /\ lock = "free"
    /\ scanning = TRUE
    /\ refresh_interval = DefaultInterval
    /\ last_refresh = 0
    /\ now = 0
    /\ uipc = "tick"
    /\ scanpc = "done"
    /\ remaining = {}
    /\ cur = "none"
    /\ fanouts = 0
    /\ workers = EmptyBag
    /\ commands = EmptyBag
    /\ power = [k \in Keys |-> "Off"]
    /\ seed = EmptyMap
    /\ oldKeys = {}
    /\ seen = {}
    /\ seenPhase = "none"
    /\ applied = "plain"

NextLive ==
    \/ UpdateBeginLive
    \/ UpdateRender
    \/ FanoutRun
    \/ \E w \in BagToSet(workers) : RefreshQuery(w)
    \/ \E w \in BagToSet(workers) : RefreshUpdate(w)
    \/ \E c \in BagToSet(commands) : CommandReturn(c)

\* the scheduler runs every thread that can run, every network call returns,
\* egui keeps calling update, and the clock advances: a frame at which the
\* interval has elapsed comes again and again
FairnessLive ==
    /\ WF_vars(UpdateBeginLive)
    /\ SF_vars(UpdateBeginLive /\ fanouts' = fanouts + 1)
    /\ WF_vars(UpdateRender)
    /\ WF_vars(FanoutRun)
    /\ \A w \in WorkerRecords : WF_vars(BagIn(w, workers) /\ RefreshQuery(w))
    /\ \A w \in WorkerRecords : WF_vars(BagIn(w, workers) /\ RefreshUpdate(w))
    /\ \A c \in CommandRecords : WF_vars(BagIn(c, commands) /\ CommandReturn(c))

\* the session after discovery, without an end, under a fair scheduler
SpecLive == InitLive /\ [][NextLive]_vars /\ FairnessLive

----------------------------------------------------------------------------
(* Properties *)

\* the label the data model assigns to a state
LabelOf(state) ==
    CASE state = None  -> "Unknown"
      [] state = "On"  -> "ON"
      [] state = "Off" -> "OFF"

\* scan_for_devices has inserted its last entry and still holds the guard
InstallComplete == scanpc = "loop" /\ remaining = {}

C2_NoResurrection ==
    [][\A w \in BagToSet(workers) :
          (RefreshUpdate(w) /\ w.key \notin DOMAIN devices) => devices' = devices]_vars

\* C2 witness: the discovery run has cleared the registry, a worker spawned for
\* the old set has applied its update, and the registry is still empty.
C2_Witness ==
    /\ applied = "absent"
    /\ scanpc = "search"
    /\ oldKeys # {}
    /\ devices = EmptyMap

\* C3: a frame rendered after a discovery run installed its result set shows
\* exactly the keys of that set, whatever refresh updates were applied meanwhile.
C3_ReadAfterInstall ==
    seenPhase \in {"after", "after_absent"} => seen = results

\* C3 witness: after the install a worker applied an update for a key outside
\* the installed set, and the frame rendered after it shows the installed keys.
C3_Witness ==
    /\ seenPhase = "after_absent"
    /\ results # {}
    /\ seen = results

\* C4 (as claimed): a refresh update for a present key whose query failed leaves
\* that entry's state and label as they were.
C4_FailureKeepsPrior ==
    [][\A w \in BagToSet(workers) :
          (RefreshUpdate(w) /\ w.state = None /\ w.key \in DOMAIN devices)
              => devices'[w.key] = devices[w.key]]_vars

\* C4 (amended): a refresh update for a present key whose query failed sets that
\* entry's state to Unknown and its label to "Unknown", as the seed query does.
C4_FailureSetsUnknown ==
    [][\A w \in BagToSet(workers) :
          (RefreshUpdate(w) /\ w.state = None /\ w.key \in DOMAIN devices)
              => /\ w.key \in DOMAIN devices'
                 /\ devices'[w.key].state = None
                 /\ devices'[w.key].status_message = "Unknown"]_vars

\* C4 witness: the last update applied was a failed query on an entry whose
\* state was known, and the entry now reads Unknown.
C4_Witness ==
    /\ applied = "failed"
    /\ \E k \in DOMAIN devices :
          devices[k].state = None /\ devices[k].status_message = "Unknown"

\* C5: no thread is inside a network call (search, state query, command) while
\* it holds the registry mutex.
C5_NoNetworkUnderLock ==
    /\ lock \in {"free", "scan"}
    /\ lock = "scan" => scanpc \notin {"search", "query"}

\* C6: the interactive thread is never blocked on the registry mutex while the
\* holder of the mutex is inside a network call.
C6_UiNeverWaitsOnNetwork ==
    ~(uipc = "lock" /\ lock = "scan" /\ scanpc \in {"search", "query"})

\* C7: whenever the mutex is free, every entry's label is the label of the
\* state stored beside it.
C7_LabelMatchesState ==
    lock = "free" =>
        \A k \in DOMAIN devices : devices[k].status_message = LabelOf(devices[k].state)

\* C7 witness: after discovery and a failed refresh, an entry reads Unknown
\* beside an entry that reads ON.
C7_Witness ==
    /\ lock = "free"
    /\ applied = "failed"
    /\ \E k \in DOMAIN devices :
          devices[k].state = None /\ devices[k].status_message = "Unknown"
    /\ \E k \in DOMAIN devices :
          devices[k].state = "On" /\ devices[k].status_message = "ON"

\* C8: when a discovery run that started on an empty registry has installed
\* its last entry, the registry holds one entry per discovered key, with the
\* state its seed query returned (Unknown when it failed) and the label of it.
C8_SeededFromQueries ==
    (InstallComplete /\ oldKeys = {}) =>
        /\ DOMAIN devices = results
        /\ DOMAIN seed = results
        /\ \A k \in results :
              /\ devices[k].state = seed[k]
              /\ devices[k].state \in PowerStates \cup {None}
              /\ devices[k].status_message = LabelOf(seed[k])

\* C8 witness: both devices were discovered, one seed query succeeded with On
\* and the other failed.
C8_Witness ==
    /\ InstallComplete
    /\ oldKeys = {}
    /\ results = Keys
    /\ seed["A"] = "On" /\ devices["A"].status_message = "ON"
    /\ seed["B"] = None /\ devices["B"].state = None

\* a worker whose query is in flight, or has failed
SlowOrFailed(w) == w.pc = "query" \/ (w.pc = "update" /\ w.state = None)

\* C9: while the worker of one device is in flight or has failed, the worker
\* of another device can finish its query, and can apply its update unless
\* the discovery thread holds the mutex.
C9_Independent ==
    \A w1 \in BagToSet(workers) : \A w2 \in BagToSet(workers) :
        (w1.key # w2.key /\ SlowOrFailed(w1)) =>
            /\ w2.pc = "query" => ENABLED RefreshQuery(w2)
            /\ (w2.pc = "update" /\ lock # "scan") => ENABLED RefreshUpdate(w2)

\* C9 witness: one worker is still inside its query while the worker of the
\* other device has its result and the update of the registry is open to it.
C9_Witness ==
    \E w1 \in BagToSet(workers) : \E w2 \in BagToSet(workers) :
        /\ w1.key # w2.key
        /\ w1.pc = "query"
        /\ w2.pc = "update"
        /\ w2.state # None
        /\ ENABLED RefreshUpdate(w2)

\* C10: spawning a command worker and the return of its command leave the
\* registry as it is; an entry's state changes only when the seed query of a
\* discovery run or the query of a refresh worker for that key completes.
C10_CommandsLeaveRegistry ==
    [][/\ commands' # commands => devices' = devices
       /\ power' # power => devices' = devices
       /\ \A k \in DOMAIN devices \cap DOMAIN devices' :
             devices'[k].state # devices[k].state =>
                 \/ ScanInsert /\ cur = k
                 \/ \E w \in BagToSet(workers) : RefreshUpdate(w) /\ w.key = k]_vars

\* C10 witness: a command has switched a device and returned, and the registry
\* still shows the state of the last query.
C10_Witness ==
    /\ commands = EmptyBag
    /\ \E k \in DOMAIN devices :
          devices[k].state \in PowerStates /\ devices[k].state # power[k]

\* no refresh worker holds a failed query for device k
QueriesSucceed(k) ==
    \A w \in BagToSet(workers) : (w.key = k /\ w.pc = "update") => w.state # None

\* the registry shows state p, with its label, for device k
Shows(k, p) ==
    /\ k \in DOMAIN devices
    /\ devices[k].state = p
    /\ devices[k].status_message = LabelOf(p)

\* C11: once the true power state of a device of the registry stays at p (after
\* the last successful command) and the queries to it succeed, the refresh
\* cycles bring the registry to show p with its label, and it keeps showing it.
C11_EventuallyConsistent ==
    \A k \in Keys : \A p \in PowerStates :
        <>[](k \in DOMAIN devices /\ power[k] = p /\ QueriesSucceed(k))
            => <>[]Shows(k, p)

\* C11 witness: a command has switched the device on (every device starts
\* "Off" and only a successful command changes that), a later refresh cycle
\* has made the registry show "On" with its label, and every thread has ended.
C11_Witness ==
    \E k \in DOMAIN devices :
        /\ power[k] = "On"
        /\ Shows(k, "On")
        /\ applied = "plain"
        /\ seenPhase = "after"
        /\ workers = EmptyBag
        /\ commands = EmptyBag

\* C12: every refresh update applied to a present key overwrites that entry
\* with the result of the worker applying it, whatever other workers for the
\* same key wrote before; so after overlapping workers have all finished, the
\* entry holds the result and label of the update applied last.
C12_LastWriteWins ==
    [][\A w \in BagToSet(workers) :
          (RefreshUpdate(w) /\ w.key \in DOMAIN devices)
              => /\ devices'[w.key].state = w.state
                 /\ devices'[w.key].status_message = LabelOf(w.state)]_vars

\* C12 witness: two workers for the same present key, of overlapping cycles,
\* have finished their queries with the results off and on, and both updates
\* are still to be applied, in either order.
C12_Witness ==
    \E k \in DOMAIN devices :
        /\ BagIn([key |-> k, pc |-> "update", state |-> "Off"], workers)
        /\ BagIn([key |-> k, pc |-> "update", state |-> "On"], workers)
        /\ lock = "free"

\* the descriptor of an entry: everything but its state and label
Descriptor(info) ==
    <<info.name, info.ip_address, info.port, info.serial_number>>

\* C14: a refresh update for a present key leaves the key set, every other
\* entry and the descriptor of its own entry unchanged; the key set changes
\* only in a step of scan_for_devices.
C14_RefreshFrame ==
    [][/\ \A w \in BagToSet(workers) :
             (RefreshUpdate(w) /\ w.key \in DOMAIN devices)
                 => /\ DOMAIN devices' = DOMAIN devices
                    /\ \A k \in DOMAIN devices \ {w.key} : devices'[k] = devices[k]
                    /\ Descriptor(devices'[w.key]) = Descriptor(devices[w.key])
       /\ DOMAIN devices' # DOMAIN devices => (ScanClear \/ ScanInsert)]_vars

\* C14 witness: both devices are in the registry, a refresh update has just
\* rewritten the state of one entry, and the other entry differs from it.
C14_Witness ==
    /\ DOMAIN devices = Keys
    /\ applied = "failed"
    /\ devices["A"].state = None
    /\ devices["B"].state = "On"
    /\ Descriptor(devices["A"]) = Descriptor(DeviceInfo("A", None))

\* C15: applying the result a worker holds to the registry twice gives the
\* registry that applying it once gives.
C15_Idempotent ==
    \A w \in BagToSet(workers) :
        w.pc = "update" =>
            LET once == UpdateState(devices, w.key, w.state)
            IN  UpdateState(once, w.key, w.state) = once

\* C15 witness: two workers hold the same result On for the same present key,
\* whose entry reads Off: the same update is about to be applied twice.
C15_Witness ==
    \E w \in BagToSet(workers) :
        /\ w.pc = "update"
        /\ w.state = "On"
        /\ w.key \in DOMAIN devices
        /\ devices[w.key].state = "Off"
        /\ CopiesIn(w, workers) = 2

\* C16: a frame starts a refresh cycle exactly when the seconds read from the
\* clock minus last_refresh are at least refresh_interval; starting a cycle
\* sets last_refresh to that reading, so two cycle starts are at least the
\* interval of the later one apart; the frame spawns the fan-out thread and
\* touches neither the mutex nor the registry.
C16_RefreshGating ==
    [][uipc = "tick" /\ uipc' = "lock" =>
          /\ fanouts' = fanouts + 1 <=> now' - last_refresh >= refresh_interval
          /\ fanouts' # fanouts + 1 => (fanouts' = fanouts /\ last_refresh' = last_refresh)
          /\ fanouts' = fanouts + 1 => last_refresh' = now'
          /\ lock' = lock /\ devices' = devices /\ workers' = workers]_vars

\* C16 witness: the discovery thread holds the mutex and a frame has just
\* started a cycle, exactly one interval after the start of the session.
C16_Witness ==
    /\ uipc = "lock"
    /\ lock = "scan"
    /\ fanouts = 1
    /\ last_refresh = now
    /\ now = SliderMin

\* C17: the refresh interval is 10 seconds at construction and lies between 5
\* and 60 seconds, bounds included, in every state.
C17_IntervalInRange ==
    /\ refresh_interval = 10
    /\ [](refresh_interval \in 5..60)

\* C17 witness: the user has dragged the slider to the upper end of its range.
C17_Witness == refresh_interval = 60 /\ uipc = "lock"

\* C18: the scanning flag is true in every state, and no step starts a scan
\* thread: the only discovery run is the one WemoApp::new spawned.
C18_ScanningStaysTrue ==
    /\ [](scanning /\ scanpc # "idle")
    /\ [][scanpc' = "clear" => scanpc = "clear"]_vars

\* C18 witness: the initial scan has ended, frames go on, and the flag is
\* still set.
C18_Witness ==
    /\ scanpc = "done"
    /\ scanning
    /\ uipc = "lock"
    /\ now = MaxNow
    /\ seenPhase = "after"

\* C19: a command worker is spawned only by a frame holding the registry, for
\* a key in it: a turn-off command only if the entry's state is On in that
\* frame, a turn-on command only if it is Off or Unknown.
C19_CommandMatchesState ==
    [][\A c \in CommandRecords :
          CopiesIn(c, commands') > CopiesIn(c, commands) =>
              /\ uipc = "lock" /\ uipc' = "tick" /\ lock = "free"
              /\ c.key \in DOMAIN devices
              /\ ~c.turn_on => devices[c.key].state = "On"
              /\ c.turn_on => devices[c.key].state \in {"Off", None}]_vars

\* C19 witness: a turn-on command is in flight for a device whose state
\* is Unknown in the registry.
C19_Witness ==
    \E c \in BagToSet(commands) :
        /\ c.turn_on
        /\ c.key \in DOMAIN devices
        /\ devices[c.key].state = None

\* every thread that has not ended can take its next step, unless that step
\* is to lock the mutex and another thread holds it; and the thread holding
\* the mutex can always take its next step
NoThreadStuck ==
    /\ uipc = "tick" => ENABLED UpdateBegin
    /\ (uipc = "lock" /\ lock = "free") => ENABLED UpdateRender
    /\ (scanpc = "clear" /\ lock = "free") => ENABLED ScanClear
    /\ scanpc = "search" => ENABLED ScanSearch
    /\ (scanpc = "lock" /\ lock = "free") => ENABLED ScanLock
    /\ scanpc = "loop" => ENABLED (ScanLoop \/ ScanFinish)
    /\ scanpc = "query" => ENABLED ScanInsert
    /\ (fanouts > 0 /\ lock = "free") => ENABLED FanoutRun
    /\ \A w \in BagToSet(workers) :
          /\ w.pc = "query" => ENABLED RefreshQuery(w)
          /\ (w.pc = "update" /\ lock = "free") => ENABLED RefreshUpdate(w)
    /\ \A c \in BagToSet(commands) : ENABLED CommandReturn(c)
    /\ lock # "free" => (lock = "scan" /\ scanpc \in {"loop", "query"})

\* C13: under a fair scheduler no thread is ever stuck, the discovery thread
\* ends, the mutex is free again and again, the fan-out threads and refresh
\* workers of the session all end, and a command worker in flight returns.
C13_WorkersTerminate ==
    /\ []NoThreadStuck
    /\ <>(scanpc = "done")
    /\ []<>(lock = "free")
    /\ <>[](fanouts = 0 /\ workers = EmptyBag)
    /\ \A c \in CommandRecords : []<>(CopiesIn(c, commands) < MaxCommands)

\* C13 witness: the discovery thread, a refresh cycle with a failed query and
\* a successful command have all run and ended, and the mutex is free.
C13_Witness ==
    /\ scanpc = "done"
    /\ lock = "free"
    /\ fanouts = 0
    /\ workers = EmptyBag
    /\ commands = EmptyBag
    /\ applied = "failed"
    /\ \E k \in DOMAIN devices :
          devices[k].state \in PowerStates /\ devices[k].state # power[k]

====
